---- MODULE Spec2Model ----
(***************************************************************************)
(* A model of python-zillow: the URL builder and transport shim of         *)
(* zillow/url_utils.py and the two API facades of zillow/api.py            *)
(* (ValuationApi, NeighborhoodApi).                                        *)
(*                                                                         *)
(* Text (XML character data, URL parameter values, paths, query strings)   *)
(* is a tuple of tokens, each token one reserved character (space, & = + % *)
(* / ? #) on its own or one or more unreserved characters, so that quoting,*)
(* joining and splitting are computed token by token.  Element, attribute  *)
(* and key names of the fixed protocol vocabulary are TLA+ strings.        *)
(* Python values are tagged records: none, text, name (a str holding a     *)
(* key of a mapping), int, map (a dict of xmltodict, insertion-ordered),   *)
(* dict (a parameter dict) and list.                                       *)
(***************************************************************************)
EXTENDS Integers, Sequences, FiniteSets, TLC

\* ---------------------------------------------------------------- bounds

\* The largest number of comp / region elements in a modelled response.
MaxItems == 3
\* The largest number of entries of a parameter mapping handed directly to
\* request_url.
MaxParams == 2

\* ------------------------------------------------------------ Python values

NoneV == [tag |-> "none"]
Text(s) == [tag |-> "text", chars |-> s]
Name(k) == [tag |-> "name", key |-> k]
IntV(n) == [tag |-> "int", n |-> n]
Map(ks, f) == [tag |-> "map", keys |-> ks, kv |-> f]
List(s) == [tag |-> "list", items |-> s]

IsMap(x) == x.tag = "map"
HasKey(x, k) == IsMap(x) /\ k \in DOMAIN x.kv

Ok(v) == [ok |-> TRUE, v |-> v]
Exc(e) == [ok |-> FALSE, exc |-> e]

\* x[k] of Python: a mapping yields the value or KeyError; None, a str and a
\* list subscripted by a str key raise TypeError.
GetItem(x, k) ==
    IF IsMap(x)
    THEN IF k \in DOMAIN x.kv THEN Ok(x.kv[k]) ELSE Exc("KeyError")
    ELSE Exc("TypeError")

\* x.get(k, None) of a dict.
DictGet(x, k) == IF k \in DOMAIN x.kv THEN x.kv[k] ELSE NoneV

\* x[p[1]][p[2]]... evaluated left to right; the first failing subscript
\* decides the exception.
RECURSIVE Subscript(_, _)
Subscript(x, p) ==
    IF p = <<>> THEN Ok(x)
    ELSE LET r == GetItem(x, Head(p))
         IN IF r.ok THEN Subscript(r.v, Tail(p)) ELSE r

\* iter(x) of a for loop over a value of the parsed response: a list yields
\* its items, a dict its keys (str), a str its pieces (str); None is not
\* iterable.
Iterate(x) ==
    CASE x.tag = "list" -> Ok(x.items)
      [] x.tag = "map" -> Ok([i \in 1..Len(x.keys) |-> Name(x.keys[i])])
      [] x.tag = "text" -> Ok([i \in 1..Len(x.chars) |-> Text(<<x.chars[i]>>)])
      [] x.tag = "none" -> Exc("TypeError")

\* ------------------------------------------------------------- XML documents

\* An XML element: its name, attributes (name, value pairs), child elements
\* and character data.
Elem(n, as, ks, t) == [name |-> n, attrs |-> as, kids |-> ks, text |-> t]
Leaf(n, t) == Elem(n, <<>>, <<>>, t)
Node(n, ks) == Elem(n, <<>>, ks, <<>>)

\* The positions of s that hold the first occurrence of their element.
FirstIdx(s) == {i \in 1..Len(s) : \A j \in 1..(i - 1) : s[j] # s[i]}

\* The subsequence of s at the positions of set I, in order.
RECURSIVE PickFrom(_, _, _)
PickFrom(s, I, i) ==
    IF i > Len(s) THEN <<>>
    ELSE (IF i \in I THEN <<s[i]>> ELSE <<>>) \o PickFrom(s, I, i + 1)

Distinct(s) == PickFrom(s, FirstIdx(s), 1)

\* xmltodict.parse's value of an element e: None for an empty element, its
\* text for a text-only element, and otherwise a mapping holding '@name' per
\* attribute, one entry per child name (the child's value when the name
\* occurs once, the list of the values when it repeats) and '#text'.
RECURSIVE ElemValue(_)
ElemValue(e) ==
    IF e.kids = <<>> /\ e.attrs = <<>>
    THEN IF e.text = <<>> THEN NoneV ELSE Text(e.text)
    ELSE LET akeys == [i \in 1..Len(e.attrs) |-> "@" \o e.attrs[i][1]]
             knames == Distinct([i \in 1..Len(e.kids) |-> e.kids[i].name])
             tkeys == IF e.text = <<>> THEN <<>> ELSE <<"#text">>
             ks == akeys \o knames \o tkeys
             same(n) == PickFrom(e.kids, {i \in 1..Len(e.kids) : e.kids[i].name = n}, 1)
             val(k) ==
                 IF \E i \in 1..Len(e.attrs) : akeys[i] = k
                 THEN Text(e.attrs[CHOOSE i \in 1..Len(e.attrs) : akeys[i] = k][2])
                 ELSE IF k = "#text" THEN Text(e.text)
                 ELSE IF Len(same(k)) = 1 THEN ElemValue(same(k)[1])
                 ELSE List([i \in 1..Len(same(k)) |-> ElemValue(same(k)[i])])
         IN Map(ks, [k \in {ks[i] : i \in 1..Len(ks)} |-> val(k)])

\* xmltodict.parse(data): a mapping from the root element's name to its value.
xmltodict_parse(doc) == Map(<<doc.name>>, [k \in {doc.name} |-> ElemValue(doc)])

\* ------------------------------------------------------------ URL building

\* The characters quote_plus percent-encodes, with their two hex digits.
HexOf ==
    [c \in {"&", "=", "+", "%", "/", "?", "#"} |->
        CASE c = "&" -> <<"2", "6">>
          [] c = "=" -> <<"3", "D">>
          [] c = "+" -> <<"2", "B">>
          [] c = "%" -> <<"2", "5">>
          [] c = "/" -> <<"2", "F">>
          [] c = "?" -> <<"3", "F">>
          [] c = "#" -> <<"2", "3">>]

\* urllib's quote_plus on one token: a space becomes '+', a reserved
\* character '%XX', and a run of letters, digits and '_.-~' stays.
QuoteChar(c) ==
    IF c = " " THEN <<"+">>
    ELSE IF c \in DOMAIN HexOf THEN <<"%">> \o HexOf[c]
    ELSE <<c>>

RECURSIVE quote_plus(_)
quote_plus(s) == IF s = <<>> THEN <<>> ELSE QuoteChar(Head(s)) \o quote_plus(Tail(s))

Digit(d) == <<"0", "1", "2", "3", "4", "5", "6", "7", "8", "9">>[d + 1]

RECURSIVE IntToStr(_)
IntToStr(n) == IF n < 10 THEN <<Digit(n)>> ELSE IntToStr(n \div 10) \o <<Digit(n % 10)>>

\* str(v) of a parameter value.
PyStr(v) ==
    CASE v.tag = "text" -> v.chars
      [] v.tag = "int" -> IntToStr(v.n)
      [] OTHER -> <<"N", "o", "n", "e">>

\* bool(v) of Python: None, the empty str, 0 and empty containers are false.
Truthy(v) ==
    CASE v.tag = "none" -> FALSE
      [] v.tag = "text" -> v.chars # <<>>
      [] v.tag = "int" -> v.n # 0
      [] v.tag = "dict" -> v.items # <<>>
      [] v.tag = "list" -> v.items # <<>>
      [] OTHER -> TRUE

\* A parameter dict: its (key, value) pairs in insertion order, keys distinct.
Dict(pairs) == [tag |-> "dict", items |-> pairs]

\* _encode(s, None): str(s).encode('utf-8').
Encode(v) == PyStr(v)

\* encode_parameters without its 'if v is not None' filter.
RECURSIVE KeptPairs_all(_)
KeptPairs_all(items) ==
    IF items = <<>> THEN <<>>
    ELSE <<<<Head(items)[1], Encode(Head(items)[2])>>>> \o KeptPairs_all(Tail(items))

\* The pairs of a dict that encode_parameters keeps: those whose value is not
\* None, each value encoded.
RECURSIVE KeptPairs(_)
KeptPairs(items) ==
    IF items = <<>> THEN <<>>
    ELSE (IF Head(items)[2] # NoneV
          THEN <<<<Head(items)[1], Encode(Head(items)[2])>>>>
          ELSE <<>>) \o KeptPairs(Tail(items))

\* urlencode(d): quote_plus(k) + '=' + quote_plus(v) per pair, joined by '&'.
RECURSIVE urlencode(_)
urlencode(pairs) ==
    IF pairs = <<>> THEN <<>>
    ELSE quote_plus(Head(pairs)[1]) \o <<"=">> \o quote_plus(Head(pairs)[2])
         \o (IF Tail(pairs) = <<>> THEN <<>> ELSE <<"&">> \o urlencode(Tail(pairs)))

encode_parameters(parameters) ==
    IF parameters = NoneV THEN NoneV ELSE Text(urlencode(KeptPairs(parameters.items)))

\* '/'.join(p).
RECURSIVE JoinSlash(_)
JoinSlash(p) ==
    IF p = <<>> THEN <<>>
    ELSE Head(p).chars \o (IF Tail(p) = <<>> THEN <<>> ELSE <<"/">> \o JoinSlash(Tail(p)))

\* A URL as urlparse splits it; scheme, netloc, params and fragment pass
\* through _build_url unchanged and are carried as the one field 'site'.
Url(site, path, query) == [site |-> site, path |-> path, query |-> query]

\* _build_url(url, path_elements, extra_params): the truthy path elements are
\* appended to the path, and the encoded parameters are appended to the query
\* ('&'-joined when the URL already has one).
_build_url(url, path_elements, extra_params) ==
    LET p == IF Truthy(path_elements)
             THEN PickFrom(path_elements.items,
                           {i \in 1..Len(path_elements.items) : Truthy(path_elements.items[i])}, 1)
             ELSE <<>>
        path == IF Truthy(path_elements)
                THEN (IF url.path # <<>> /\ url.path[Len(url.path)] = "/"
                      THEN url.path ELSE url.path \o <<"/">>) \o JoinSlash(p)
                ELSE url.path
        query == IF Truthy(extra_params)
                 THEN LET extra_query == encode_parameters(extra_params).chars
                      IN IF url.query # <<>>
                         THEN url.query \o <<"&">> \o extra_query
                         ELSE extra_query
                 ELSE url.query
    IN Url(url.site, path, query)

\* -------------------------------------------------------- result field models

\* Place and Region as set_data leaves them: each attribute holds the value
\* of its key in the raw mapping, or None when the key is absent.
PlaceOf(data, ext) ==
    [class |-> "Place", has_extended_data |-> ext,
     zpid |-> DictGet(data, "zpid"),
     address |-> DictGet(data, "address"),
     zestimate |-> DictGet(data, "zestimate")]

RegionOf(data) ==
    [class |-> "Region",
     id |-> DictGet(data, "id"),
     region_name |-> DictGet(data, "name"),
     zindex |-> DictGet(data, "zindex")]

\* Place.set_data(raw): raw that is no mapping is a failure; absent optional
\* keys leave their attribute unset.
Place_set_data(data, ext) ==
    IF IsMap(data) THEN Ok(PlaceOf(data, ext)) ELSE Exc("ParseError")

\* Region.set_data(raw).
Region_set_data(data) ==
    IF IsMap(data) THEN Ok(RegionOf(data)) ELSE Exc("ParseError")

\* ------------------------------------------------------ modelled responses

\* All sequences over S of length at most n.
RECURSIVE SeqUpTo(_, _)
SeqUpTo(S, n) ==
    IF n = 0 THEN {<<>>}
    ELSE LET R == SeqUpTo(S, n - 1)
         IN R \cup {Append(r, x) : r \in {q \in R : Len(q) = n - 1}, x \in S}

\* What a property or region element of a response carries: an identifier, or
\* <<>> for an empty element (<comp/>), which xmltodict parses to None.
ItemSpecs == {<<"1">>, <<"2">>, <<>>}

PlaceKids(id) ==
    <<Leaf("zpid", id), Node("address", <<Leaf("street", <<"s">> \o id)>>)>>

\* A property element named n (result, principal, comp).
PlaceElem(n, id) == IF id = <<>> THEN Leaf(n, <<>>) ELSE Node(n, PlaceKids(id))

RegionName(id) == IF id = <<"1">> THEN <<"Alki">> ELSE <<"Ballard">>
RegionZindex(id) == IF id = <<"1">> THEN <<"537360">> ELSE <<"9">>

\* A region element of a RegionChildren response.
RegionElem(id) ==
    IF id = <<>> THEN Leaf("region", <<>>)
    ELSE Node("region",
              <<Leaf("id", id), Leaf("name", RegionName(id)),
                Elem("zindex", <<<<"currency", <<"USD">>>>>>, <<>>, RegionZindex(id))>>)

\* How the envelope of a response is damaged at one level: the element is
\* absent (its parent holds a message element instead), empty, or holds text.
CutKinds == {"absent", "empty", "text"}

\* The nested elements names[i..], the innermost holding kids; with cut = i
\* the element of level i is damaged as kind says (cut = 0: undamaged).
RECURSIVE Envelope(_, _, _, _, _)
Envelope(names, i, kids, cut, kind) ==
    IF i = cut
    THEN CASE kind = "absent" -> Leaf("message", <<"m">>)
           [] kind = "empty" -> Leaf(names[i], <<>>)
           [] OTHER -> Leaf(names[i], <<"e">>)
    ELSE IF i = Len(names) THEN Node(names[i], kids)
    ELSE Node(names[i], <<Envelope(names, i + 1, kids, cut, kind)>>)

SearchPath == <<"SearchResults:searchresults", "response", "results">>
ZestimatePath == <<"Zestimate:zestimate", "response">>
CompsPath == <<"Comps:comps", "response", "properties">>
RegionPath == <<"RegionChildren:regionchildren", "response", "list">>

\* The responses to an envelope path: damaged at every level in every way.
CutDocs(names) ==
    {Envelope(names, 1, <<>>, c, k) : c \in 1..Len(names), k \in CutKinds}

SearchDocs ==
    {Envelope(SearchPath, 1, [i \in 1..Len(ids) |-> PlaceElem("result", ids[i])], 0, "absent") :
        ids \in SeqUpTo(ItemSpecs, 2)}
    \cup CutDocs(SearchPath)

ZestimateDocs ==
    {Envelope(ZestimatePath, 1, PlaceKids(id), 0, "absent") : id \in ItemSpecs \ {<<>>}}
    \cup CutDocs(ZestimatePath)

\* ps: the principal elements of the response (none or one), as item specs;
\* cs: its comparables elements (none or one), each the specs of its comps.
CompsDoc(ps, cs) ==
    Envelope(CompsPath, 1,
             [i \in 1..Len(ps) |-> PlaceElem("principal", ps[i])]
             \o [j \in 1..Len(cs) |->
                    Node("comparables", [i \in 1..Len(cs[j]) |-> PlaceElem("comp", cs[j][i])])],
             0, "absent")

CompsDocs ==
    {CompsDoc(ps, cs) : ps \in SeqUpTo(ItemSpecs, 1),
                        cs \in SeqUpTo(SeqUpTo(ItemSpecs, MaxItems), 1)}
    \cup CutDocs(CompsPath)

RegionDoc(ids) ==
    Envelope(RegionPath, 1,
             <<Leaf("count", IntToStr(Len(ids)))>> \o [i \in 1..Len(ids) |-> RegionElem(ids[i])],
             0, "absent")

RegionDocs == {RegionDoc(ids) : ids \in SeqUpTo(ItemSpecs, MaxItems)} \cup CutDocs(RegionPath)

\* ------------------------------------------------------------ call inputs

BaseSite == "https://www.zillow.com"

\* '%s/<endpoint>.htm' % self._base_url, as urlparse splits it.
EndpointUrl(endpoint) == Url(BaseSite, <<"/", "webservice", "/", endpoint>>, <<>>)

ZwsIds == {Text(<<"X1-ZWz1">>)}
AddressArgs == {NoneV, Text(<<>>), Text(<<"5", " ", "Main">>), Text(<<"A", "&", "B", "=">>)}
ZpidArgs == {IntV(2100641621), NoneV}
CountArgs == {IntV(1), IntV(25)}

KwargNames == {"region_id", "state", "county", "city", "childtype"}
KwargValues(k) ==
    CASE k = "region_id" -> {IntV(99562), NoneV}
      [] k = "state" -> {Text(<<"wa">>)}
      [] k = "county" -> {Text(<<"king">>)}
      [] k = "city" -> {Text(<<"seattle">>)}
      [] OTHER -> {Text(<<"neighborhood">>)}

\* The keyword arguments of a GetRegionChildren call: any subset of the
\* names, each with one of its values.
Kwargs ==
    UNION {{f \in [S -> UNION {KwargValues(k) : k \in S}] : \A k \in S : f[k] \in KwargValues(k)} :
              S \in SUBSET KwargNames}

\* URLs, methods and parameter mappings of direct request_url / _build_url calls.
DirectUrls ==
    {Url(BaseSite, <<"/", "w">>, <<>>), Url(BaseSite, <<"/">>, <<"q", "=", "1">>)}
Methods == {"GET", "POST"}
ParamKeys == {<<"zpid">>, <<"a", "&", "b">>, <<"k", "=">>}
ParamValues ==
    {NoneV, Text(<<>>), Text(<<"x", " ", "y">>), Text(<<"&", "=">>), Text(<<"%", "+">>), IntV(25)}
ParamDicts ==
    {Dict(d) : d \in {q \in SeqUpTo(ParamKeys \X ParamValues, MaxParams) :
                         \A i, j \in 1..Len(q) : q[i][1] = q[j][1] => i = j}}
DirectData == ParamDicts \cup {NoneV}
PathElementArgs ==
    {NoneV, List(<<>>), List(<<Text(<<"p">>)>>), List(<<Text(<<"p">>), NoneV, Text(<<>>), Text(<<"q">>)>>)}

\* What requests.get raises on a transport failure (str(e)).
TransportFailures == {"connection refused", "timed out"}

\* ------------------------------------------------------------------ state

VARIABLES
    pc,               \* position of the caller: idle, request, response, loop, regions, rloop, done
    op,               \* the operation in progress or just finished
    args,             \* its arguments
    req,              \* the arguments of its request_url call, None before the call
    sent,             \* the URLs handed to requests.get during the operation
    resp,             \* the XML document of the transport's response
    xml,              \* xmltodict_data / xml_response
    principal_place,  \* GetComps, GetDeepComps: the principal Place
    items,            \* the sequence the for loop iterates
    idx,              \* the position of the loop in items
    acc,              \* comp_places / regions
    outcome           \* how the operation ended

vars == <<pc, op, args, req, sent, resp, xml, principal_place, items, idx, acc, outcome>>

Pending == [kind |-> "pending"]
Return(v) == [kind |-> "return", value |-> v]
Raise(e, m) == [kind |-> "raise", exc |-> e, message |-> m]
Response(doc) == [tag |-> "response", content |-> doc]

Init ==
    /\ pc = "idle"
    /\ op = "none"
    /\ args = NoneV
    /\ req = NoneV
    /\ sent = <<>>
    /\ resp = NoneV
    /\ xml = NoneV
    /\ principal_place = NoneV
    /\ items = <<>>
    /\ idx = 0
    /\ acc = <<>>
    /\ outcome = Pending

\* Every call is a cycle of its own and shares no state with another: a call
\* starts from the initial state and ends in done.
Idle == pc = "idle"

\* A new call of operation o with arguments a: the locals of the previous
\* call are gone.
Begin(o, a) ==
    /\ op' = o
    /\ args' = a
    /\ sent' = <<>>
    /\ principal_place' = NoneV
    /\ items' = <<>>
    /\ idx' = 0
    /\ acc' = <<>>

\* resp = request_url(url, 'GET', data=parameters)
CallRequestUrl(url, method, data) ==
    /\ req' = [url |-> url, method |-> method, data |-> data]
    /\ pc' = "request"
    /\ outcome' = Pending
    /\ UNCHANGED <<resp, xml>>

\* The call ends before request_url is reached.
EndEarly(o) ==
    /\ req' = NoneV
    /\ pc' = "done"
    /\ outcome' = o
    /\ UNCHANGED <<resp, xml>>

RentParam(rentzestimate) ==
    IF rentzestimate THEN <<<<<<"rentzestimate">>, Text(<<"true">>)>>>> ELSE <<>>

\* ----------------------------------------------------------- ValuationApi

\* 'if address or citystatezip' in place of 'and'.
SearchArgsValid_or(address, citystatezip) == Truthy(address) \/ Truthy(citystatezip)

\* if address and citystatezip
SearchArgsValid(address, citystatezip) == Truthy(address) /\ Truthy(citystatezip)

\* GetSearchResults up to its request_url call: both address and
\* citystatezip are required, else ZillowError.
GetSearchResults ==
    /\ Idle
    /\ \E zws_id \in ZwsIds, address \in AddressArgs, citystatezip \in AddressArgs,
          rentzestimate \in BOOLEAN :
        /\ Begin("GetSearchResults",
                 [zws_id |-> zws_id, address |-> address, citystatezip |-> citystatezip,
                  rentzestimate |-> rentzestimate])
        /\ IF SearchArgsValid(address, citystatezip)
           THEN CallRequestUrl(EndpointUrl("GetSearchResults.htm"), "GET",
                    Dict(<<<<<<"zws-id">>, zws_id>>, <<<<"address">>, address>>,
                           <<<<"citystatezip">>, citystatezip>>>> \o RentParam(rentzestimate)))
           ELSE EndEarly(Raise("ZillowError", "Specify address and citystatezip."))

\* GetZEstimate up to its request_url call.
GetZEstimate ==
    /\ Idle
    /\ \E zws_id \in ZwsIds, zpid \in ZpidArgs, rentzestimate \in BOOLEAN :
        /\ Begin("GetZEstimate",
                 [zws_id |-> zws_id, zpid |-> zpid, rentzestimate |-> rentzestimate])
        /\ CallRequestUrl(EndpointUrl("GetZestimate.htm"), "GET",
               Dict(<<<<<<"zws-id">>, zws_id>>, <<<<"zpid">>, zpid>>>> \o RentParam(rentzestimate)))

\* GetDeepSearchResults up to its request_url call: the parameters are
\* passed on as given.
GetDeepSearchResults ==
    /\ Idle
    /\ \E zws_id \in ZwsIds, address \in AddressArgs, citystatezip \in AddressArgs,
          rentzestimate \in BOOLEAN :
        /\ Begin("GetDeepSearchResults",
                 [zws_id |-> zws_id, address |-> address, citystatezip |-> citystatezip,
                  rentzestimate |-> rentzestimate])
        /\ CallRequestUrl(EndpointUrl("GetDeepSearchResults.htm"), "GET",
               Dict(<<<<<<"zws-id">>, zws_id>>, <<<<"address">>, address>>,
                      <<<<"citystatezip">>, citystatezip>>>> \o RentParam(rentzestimate)))

\* GetDeepComps and GetComps (o names which) up to the request_url call.
CompsCall(o, endpoint) ==
    /\ Idle
    /\ \E zws_id \in ZwsIds, zpid \in ZpidArgs \ {NoneV}, count \in CountArgs,
          rentzestimate \in BOOLEAN :
        /\ Begin(o, [zws_id |-> zws_id, zpid |-> zpid, count |-> count,
                     rentzestimate |-> rentzestimate])
        /\ CallRequestUrl(EndpointUrl(endpoint), "GET",
               Dict(<<<<<<"zws-id">>, zws_id>>, <<<<"zpid">>, zpid>>, <<<<"count">>, count>>>>
                    \o RentParam(rentzestimate)))

GetDeepComps == CompsCall("GetDeepComps", "GetDeepComps.htm")

GetComps == CompsCall("GetComps", "GetComps.htm")

\* A single-Place operation after the lookup r of its subtree: the lookup
\* and set_data are inside the try, so every failure is a ZillowError.
PlaceOutcome(r, ext) ==
    IF r.ok /\ Place_set_data(r.v, ext).ok
    THEN Return(Place_set_data(r.v, ext).v)
    ELSE Raise("ZillowError", "Zillow did not return a valid response")

\* A single-Place operation o from the response on: parse, look up (r is
\* the lookup's result), ingest.
PlaceResponse(o, r, ext) ==
    /\ pc = "response"
    /\ op = o
    /\ xml' = xmltodict_parse(resp)
    /\ outcome' = PlaceOutcome(r, ext)
    /\ pc' = "done"
    /\ UNCHANGED <<op, args, req, sent, resp, principal_place, items, idx, acc>>

SearchResultOf(x) ==
    Subscript(x, <<"SearchResults:searchresults", "response", "results", "result">>)

GetSearchResults_response == PlaceResponse("GetSearchResults", SearchResultOf(xmltodict_parse(resp)), FALSE)

ZestimateOf(x) == Subscript(DictGet(x, "Zestimate:zestimate"), <<"response">>)

GetZEstimate_response == PlaceResponse("GetZEstimate", ZestimateOf(xmltodict_parse(resp)), FALSE)

DeepSearchResultOf(x) ==
    Subscript(DictGet(x, "SearchResults:searchresults"), <<"response", "results", "result">>)

GetDeepSearchResults_response == PlaceResponse("GetDeepSearchResults", DeepSearchResultOf(xmltodict_parse(resp)), TRUE)

PrincipalOf(x) ==
    Subscript(DictGet(x, "Comps:comps"), <<"response", "properties", "principal">>)

CompsOf(x) ==
    Subscript(DictGet(x, "Comps:comps"), <<"response", "properties", "comparables", "comp">>)

\* GetDeepComps / GetComps from the response to the start of the loop: the
\* two lookups and the loop's iter() are outside every try and raise their
\* own exception; only the principal's set_data is wrapped.
CompsPrincipal(o) ==
    /\ pc = "response"
    /\ op = o
    /\ xml' = xmltodict_parse(resp)
    /\ LET pr == PrincipalOf(xml')
           sd == Place_set_data(pr.v, FALSE)
           cr == CompsOf(xml')
           it == Iterate(cr.v)
           fail(out) == /\ outcome' = out
                        /\ pc' = "done"
                        /\ UNCHANGED <<principal_place, items, idx>>
       IN IF ~pr.ok THEN fail(Raise(pr.exc, "principal"))
          ELSE IF ~sd.ok THEN fail(Raise("ZillowError", "No principal data found"))
          ELSE IF ~cr.ok THEN fail(Raise(cr.exc, "comp"))
          ELSE IF ~it.ok THEN fail(Raise(it.exc, "not iterable"))
          ELSE /\ principal_place' = sd.v
               /\ items' = it.v
               /\ idx' = 1
               /\ pc' = "loop"
               /\ outcome' = Pending
    /\ UNCHANGED <<op, args, req, sent, resp, acc>>

GetDeepComps_principal == CompsPrincipal("GetDeepComps")

GetComps_principal == CompsPrincipal("GetComps")

\* The loop with an except branch that skips the datum instead of raising.
CompsLoop_skip(o) ==
    /\ pc = "loop"
    /\ op = o
    /\ IF idx > Len(items)
       THEN /\ outcome' = Return([principal |-> principal_place, comps |-> acc])
            /\ pc' = "done"
            /\ UNCHANGED <<idx, acc>>
       ELSE LET sd == Place_set_data(items[idx], FALSE)
            IN /\ acc' = IF sd.ok THEN Append(acc, sd.v) ELSE acc
               /\ idx' = idx + 1
               /\ UNCHANGED <<pc, outcome>>
    /\ UNCHANGED <<op, args, req, sent, resp, xml, principal_place, items>>

\* One turn of 'for datum in comps', or the return after the last one: a
\* datum whose set_data fails ends the call with ZillowError.
CompsLoop(o) ==
    /\ pc = "loop"
    /\ op = o
    /\ IF idx > Len(items)
       THEN /\ outcome' = Return([principal |-> principal_place, comps |-> acc])
            /\ pc' = "done"
            /\ UNCHANGED <<idx, acc>>
       ELSE LET sd == Place_set_data(items[idx], FALSE)
            IN IF sd.ok
               THEN /\ acc' = Append(acc, sd.v)
                    /\ idx' = idx + 1
                    /\ UNCHANGED <<pc, outcome>>
               ELSE /\ outcome' = Raise("ZillowError", "No valid comp data found")
                    /\ pc' = "done"
                    /\ UNCHANGED <<idx, acc>>
    /\ UNCHANGED <<op, args, req, sent, resp, xml, principal_place, items>>

GetDeepComps_loop == CompsLoop("GetDeepComps")

GetComps_loop == CompsLoop("GetComps")

\* --------------------------------------------------------- NeighborhoodApi

\* A check that only rejects the call with neither keyword.
RegionArgsValid_atleast(kwargs) == Cardinality(DOMAIN kwargs \cap {"region_id", "state"}) >= 1

\* len(set(kwargs.keys()) & {'region_id', 'state'}) != 1 raises.
RegionArgsValid(kwargs) == Cardinality(DOMAIN kwargs \cap {"region_id", "state"}) = 1

\* kwarg_mappings, in its order: (API parameter, keyword argument).
kwarg_mappings ==
    <<<<"regionId", "region_id">>, <<"state", "state">>, <<"county", "county">>,
      <<"city", "city">>, <<"childtype", "childtype">>>>

\* The parameters of the keyword arguments present, then 'zws-id'.
RegionParameters(zws_id, kwargs) ==
    LET present == PickFrom(kwarg_mappings,
                            {i \in 1..Len(kwarg_mappings) : kwarg_mappings[i][2] \in DOMAIN kwargs}, 1)
    IN Dict([i \in 1..Len(present) |-> <<<<present[i][1]>>, kwargs[present[i][2]]>>]
            \o <<<<<<"zws-id">>, zws_id>>>>)

\* GetRegionChildren up to its request_url call: exactly one of region_id and
\* state must be among the keyword arguments, else ValueError.
GetRegionChildren ==
    /\ Idle
    /\ \E zws_id \in ZwsIds, kwargs \in Kwargs :
        /\ Begin("GetRegionChildren", [zws_id |-> zws_id, kwargs |-> kwargs])
        /\ IF RegionArgsValid(kwargs)
           THEN CallRequestUrl(EndpointUrl("GetRegionChildren.htm"), "GET",
                               RegionParameters(zws_id, kwargs))
           ELSE EndEarly(Raise("ValueError",
                               "One keyword argument of 'region_id' or 'state' is required"))

\* GetRegionChildren from the response on: parse and hand the mapping to
\* _parse_out_regions.
GetRegionChildren_response ==
    /\ pc = "response"
    /\ op = "GetRegionChildren"
    /\ xml' = xmltodict_parse(resp)
    /\ pc' = "regions"
    /\ UNCHANGED <<op, args, req, sent, resp, principal_place, items, idx, acc, outcome>>

\* _parse_out_regions called on a parsed document, as the tests call it.
_parse_out_regions ==
    /\ Idle
    /\ \E doc \in RegionDocs :
        /\ Begin("_parse_out_regions", [xml_response |-> xmltodict_parse(doc)])
        /\ resp' = doc
        /\ xml' = xmltodict_parse(doc)
    /\ req' = NoneV
    /\ pc' = "regions"
    /\ outcome' = Pending

RegionDataOf(x) ==
    Subscript(x, <<"RegionChildren:regionchildren", "response", "list", "region">>)

\* _parse_out_regions to the start of its loop: the lookup is outside the
\* try and raises its own exception; iter() fails inside the try, where the
\* handler formats datum, which is still unbound.
_parse_out_regions_lookup ==
    /\ pc = "regions"
    /\ LET r == RegionDataOf(xml)
           it == Iterate(r.v)
       IN IF ~r.ok
          THEN /\ outcome' = Raise(r.exc, "region")
               /\ pc' = "done"
               /\ UNCHANGED <<items, idx>>
          ELSE IF ~it.ok
          THEN /\ outcome' = Raise("UnboundLocalError", "datum")
               /\ pc' = "done"
               /\ UNCHANGED <<items, idx>>
          ELSE /\ items' = it.v
               /\ idx' = 1
               /\ pc' = "rloop"
               /\ UNCHANGED outcome
    /\ UNCHANGED <<op, args, req, sent, resp, xml, principal_place, acc>>

\* One turn of 'for datum in region_data', or the return after the last one.
_parse_out_regions_loop ==
    /\ pc = "rloop"
    /\ IF idx > Len(items)
       THEN /\ outcome' = Return([regions |-> acc])
            /\ pc' = "done"
            /\ UNCHANGED <<idx, acc>>
       ELSE LET sd == Region_set_data(items[idx])
            IN IF sd.ok
               THEN /\ acc' = Append(acc, sd.v)
                    /\ idx' = idx + 1
                    /\ UNCHANGED <<pc, outcome>>
               ELSE /\ outcome' = Raise("ZillowError", "No valid comp data found")
                    /\ pc' = "done"
                    /\ UNCHANGED <<idx, acc>>
    /\ UNCHANGED <<op, args, req, sent, resp, xml, principal_place, items>>

\* --------------------------------------------------------------- url_utils

\* The responses the transport may return to an operation.
DocsFor(o) ==
    CASE o = "GetSearchResults" -> SearchDocs
      [] o = "GetDeepSearchResults" -> SearchDocs
      [] o = "GetZEstimate" -> ZestimateDocs
      [] o = "GetDeepComps" -> CompsDocs
      [] o = "GetComps" -> CompsDocs
      [] o = "GetRegionChildren" -> RegionDocs
      [] OTHER -> CutDocs(ZestimatePath)

\* request_url called directly.
request_url_call ==
    /\ Idle
    /\ \E url \in DirectUrls, method \in Methods, data \in DirectData :
        /\ Begin("request_url", [url |-> url, method |-> method, data |-> data])
        /\ CallRequestUrl(url, method, data)

\* The body of request_url: for GET the built URL goes to requests.get, which
\* returns a response or raises a RequestException, re-raised as
\* ZillowError(str(e)); any other method falls off the end and returns None.
request_url ==
    /\ pc = "request"
    /\ IF req.method = "GET"
       THEN /\ sent' = Append(sent, _build_url(req.url, NoneV, req.data))
            /\ \/ \E doc \in DocsFor(op) :
                    /\ resp' = doc
                    /\ IF op = "request_url"
                       THEN pc' = "done" /\ outcome' = Return(Response(doc))
                       ELSE pc' = "response" /\ outcome' = Pending
               \/ \E e \in TransportFailures :
                    /\ outcome' = Raise("ZillowError", e)
                    /\ pc' = "done"
                    /\ UNCHANGED resp
       ELSE /\ outcome' = Return(NoneV)
            /\ pc' = "done"
            /\ UNCHANGED <<sent, resp>>
    /\ UNCHANGED <<op, args, req, xml, principal_place, items, idx, acc>>

\* _build_url called directly.
_build_url_call ==
    /\ Idle
    /\ \E url \in DirectUrls, path_elements \in PathElementArgs, extra_params \in DirectData :
        /\ Begin("_build_url",
                 [url |-> url, path_elements |-> path_elements, extra_params |-> extra_params])
        /\ EndEarly(Return(_build_url(url, path_elements, extra_params)))

\* ---------------------------------------------------------- specification

Next ==
    \/ GetSearchResults
    \/ GetSearchResults_response
    \/ GetZEstimate
    \/ GetZEstimate_response
    \/ GetDeepSearchResults
    \/ GetDeepSearchResults_response
    \/ GetDeepComps
    \/ GetDeepComps_principal
    \/ GetDeepComps_loop
    \/ GetComps
    \/ GetComps_principal
    \/ GetComps_loop
    \/ GetRegionChildren
    \/ GetRegionChildren_response
    \/ _parse_out_regions
    \/ _parse_out_regions_lookup
    \/ _parse_out_regions_loop
    \/ request_url_call
    \/ request_url
    \/ _build_url_call

Spec == Init /\ [][Next]_vars

\* ------------------------------------------------- re-parsing a query string

\* The pieces of s between the occurrences of sep.
RECURSIVE SplitOn(_, _, _)
SplitOn(s, sep, cur) ==
    IF s = <<>> THEN <<cur>>
    ELSE IF Head(s) = sep THEN <<cur>> \o SplitOn(Tail(s), sep, <<>>)
    ELSE SplitOn(Tail(s), sep, Append(cur, Head(s)))

\* unquote_plus: '+' is a space and '%XX' the character of that code.
RECURSIVE Unquote(_)
Unquote(s) ==
    IF s = <<>> THEN <<>>
    ELSE IF Head(s) = "+" THEN <<" ">> \o Unquote(Tail(s))
    ELSE IF Head(s) = "%" /\ Len(s) >= 3 /\ \E c \in DOMAIN HexOf : HexOf[c] = <<s[2], s[3]>>
    THEN <<CHOOSE c \in DOMAIN HexOf : HexOf[c] = <<s[2], s[3]>>>> \o Unquote(SubSeq(s, 4, Len(s)))
    ELSE <<Head(s)>> \o Unquote(Tail(s))

\* The position of the first '=' of s, or 0.
FirstEq(s) ==
    IF \E i \in 1..Len(s) : s[i] = "="
    THEN CHOOSE i \in 1..Len(s) : s[i] = "=" /\ \A j \in 1..(i - 1) : s[j] # "="
    ELSE 0

\* The (key, value) pairs of a query string: its non-empty '&'-separated
\* pieces, each split at its first '=' and unquoted; blank values are kept.
ParseQs(q) ==
    LET pieces == SplitOn(q, "&", <<>>)
        full == PickFrom(pieces, {i \in 1..Len(pieces) : pieces[i] # <<>>}, 1)
        pair(x) == IF FirstEq(x) = 0 THEN <<Unquote(x), <<>>>>
                   ELSE <<Unquote(SubSeq(x, 1, FirstEq(x) - 1)),
                          Unquote(SubSeq(x, FirstEq(x) + 1, Len(x)))>>
    IN [i \in 1..Len(full) |-> pair(full[i])]

\* The entries of a parameter mapping (None: no mapping) as a set.
Entries(data) == IF data = NoneV THEN {} ELSE {data.items[i] : i \in 1..Len(data.items)}

\* query re-parses to exactly the entries of data whose value is not None,
\* each value in its string form, and names no key whose value is None.
QueryRoundTrips(data, query) ==
    LET parsed == ParseQs(query)
        got == {parsed[i] : i \in 1..Len(parsed)}
        want == {<<e[1], PyStr(e[2])>> : e \in {x \in Entries(data) : x[2] # NoneV}}
    IN /\ got = want
       /\ Len(parsed) = Cardinality(want)
       /\ \A e \in Entries(data) : e[2] = NoneV => \A i \in 1..Len(parsed) : parsed[i][1] # e[1]

\* ------------------------------------------------------------------ claims

FacadeOps ==
    {"GetSearchResults", "GetZEstimate", "GetDeepSearchResults", "GetDeepComps", "GetComps",
     "GetRegionChildren", "_parse_out_regions"}
CompsOps == {"GetDeepComps", "GetComps"}
RegionOps == {"GetRegionChildren", "_parse_out_regions"}
GoodSpecs == ItemSpecs \ {<<>>}

RaisedZillowError == outcome.kind = "raise" /\ outcome.exc = "ZillowError"

\* The key paths an operation needs in the parsed response.
RequiredPaths(o) ==
    CASE o \in {"GetSearchResults", "GetDeepSearchResults"} -> {SearchPath \o <<"result">>}
      [] o = "GetZEstimate" -> {ZestimatePath}
      [] o \in CompsOps -> {CompsPath \o <<"principal">>, CompsPath \o <<"comparables", "comp">>}
      [] OTHER -> {RegionPath \o <<"region">>}

\* Some key of a required path is absent, or is reached in something that is
\* no mapping.
SubtreeMissing(o, doc) == \E path \in RequiredPaths(o) : ~Subscript(xmltodict_parse(doc), path).ok

\* C1: a facade operation that received a response lacking its required
\* subtree ends with ZillowError.
C1_MissingSubtreeRaisesZillowError ==
    (op \in FacadeOps /\ pc = "done" /\ resp # NoneV /\ SubtreeMissing(op, resp))
        => RaisedZillowError

\* C2: GetComps / GetDeepComps on a response with one principal and N >= 1
\* comp elements return the principal Place and exactly N comparable Places,
\* the i-th built from the i-th comp element.
C2_CompsInSourceOrder ==
    \A p \in GoodSpecs, ids \in SeqUpTo(GoodSpecs, MaxItems) \ {<<>>} :
        (op \in CompsOps /\ pc = "done" /\ resp = CompsDoc(<<p>>, <<ids>>))
            => outcome =
                Return([principal |-> PlaceOf(ElemValue(PlaceElem("principal", p)), FALSE),
                        comps |-> [i \in 1..Len(ids) |->
                                      PlaceOf(ElemValue(PlaceElem("comp", ids[i])), FALSE)]])

\* What C2 states, for N >= 2 only.
CompsInSourceOrderFromTwo ==
    \A p \in GoodSpecs, ids \in {q \in SeqUpTo(GoodSpecs, MaxItems) : Len(q) >= 2} :
        (op \in CompsOps /\ pc = "done" /\ resp = CompsDoc(<<p>>, <<ids>>))
            => outcome =
                Return([principal |-> PlaceOf(ElemValue(PlaceElem("principal", p)), FALSE),
                        comps |-> [i \in 1..Len(ids) |->
                                      PlaceOf(ElemValue(PlaceElem("comp", ids[i])), FALSE)]])

\* C3: _parse_out_regions on a response with K >= 1 region elements returns
\* exactly K regions, the i-th carrying the name and zindex text of the i-th
\* region element.
C3_RegionsMatchSource ==
    \A ids \in SeqUpTo(GoodSpecs, MaxItems) \ {<<>>} :
        (op \in RegionOps /\ pc = "done" /\ resp = RegionDoc(ids))
            => /\ outcome.kind = "return"
               /\ Len(outcome.value.regions) = Len(ids)
               /\ \A i \in 1..Len(ids) :
                    /\ outcome.value.regions[i].region_name = Text(RegionName(ids[i]))
                    /\ HasKey(outcome.value.regions[i].zindex, "#text")
                    /\ outcome.value.regions[i].zindex.kv["#text"] = Text(RegionZindex(ids[i]))

\* What C3 states, for K >= 2 only.
RegionsMatchSourceFromTwo ==
    \A ids \in {q \in SeqUpTo(GoodSpecs, MaxItems) : Len(q) >= 2} :
        (op \in RegionOps /\ pc = "done" /\ resp = RegionDoc(ids))
            => /\ outcome.kind = "return"
               /\ Len(outcome.value.regions) = Len(ids)
               /\ \A i \in 1..Len(ids) :
                    /\ outcome.value.regions[i].region_name = Text(RegionName(ids[i]))
                    /\ HasKey(outcome.value.regions[i].zindex, "#text")
                    /\ outcome.value.regions[i].zindex.kv["#text"] = Text(RegionZindex(ids[i]))

\* C4: GetDeepSearchResults without address or citystatezip ends with an
\* error and never calls request_url.
C4_DeepSearchValidatesFirst ==
    (op = "GetDeepSearchResults" /\ ~(Truthy(args.address) /\ Truthy(args.citystatezip)))
        => /\ pc = "done"
           /\ outcome.kind = "raise"
           /\ req = NoneV
           /\ sent = <<>>

\* The arguments of the call in progress fail the validation of its
\* operation.
ValidationFails ==
    \/ op = "GetSearchResults" /\ ~(Truthy(args.address) /\ Truthy(args.citystatezip))
    \/ op = "GetRegionChildren"
         /\ Cardinality(DOMAIN args.kwargs \cap {"region_id", "state"}) # 1

\* C5: every validation failure ends with ZillowError.
C5_ValidationIsZillowError == (ValidationFails /\ pc = "done") => RaisedZillowError

\* C6: GetSearchResults without both address and citystatezip raises the
\* validation error, and request_url is never called nor a URL sent.
C6_SearchValidatesFirst ==
    (op = "GetSearchResults" /\ ~(Truthy(args.address) /\ Truthy(args.citystatezip)))
        => /\ pc = "done"
           /\ RaisedZillowError
           /\ req = NoneV
           /\ sent = <<>>

C6_Witness ==
    /\ op = "GetSearchResults"
    /\ pc = "done"
    /\ args.address = NoneV
    /\ Truthy(args.citystatezip)
    /\ outcome.kind = "raise"

\* C7: GetRegionChildren with both or neither of region_id and state among
\* its keyword arguments raises before request_url is called; request_url is
\* called, and a URL sent, only with exactly one of them.
C7_RegionValidatesFirst ==
    op = "GetRegionChildren"
        => LET n == Cardinality(DOMAIN args.kwargs \cap {"region_id", "state"})
           IN /\ n # 1 => (pc = "done" /\ outcome.kind = "raise" /\ req = NoneV /\ sent = <<>>)
              /\ (req # NoneV \/ sent # <<>>) => n = 1

C7_Witness ==
    /\ op = "GetRegionChildren"
    /\ pc = "done"
    /\ {"region_id", "state"} \subseteq DOMAIN args.kwargs
    /\ outcome.kind = "raise"

\* set_data fails on the principal or on an item of the sequence the loop of
\* the operation in progress iterates.
IngestionFails ==
    \/ /\ op \in CompsOps
       /\ xml # NoneV
       /\ PrincipalOf(xml).ok
       /\ ~Place_set_data(PrincipalOf(xml).v, FALSE).ok
    \/ /\ op \in CompsOps
       /\ \E j \in 1..Len(items) : ~Place_set_data(items[j], FALSE).ok
    \/ /\ op \in RegionOps
       /\ \E j \in 1..Len(items) : ~Region_set_data(items[j]).ok

\* C8: a multi-item operation in which set_data fails on an item ends with
\* ZillowError and returns nothing, whatever was ingested before.
C8_NoPartialResult == (IngestionFails /\ pc = "done") => RaisedZillowError

C8_Witness ==
    /\ op = "GetComps"
    /\ pc = "done"
    /\ Len(acc) >= 1
    /\ Len(items) > Len(acc)
    /\ ~Place_set_data(items[Len(acc) + 1], FALSE).ok
    /\ outcome.kind = "raise"

\* C9: the query string _build_url gives a base URL without a query
\* re-parses to exactly the entries of the mapping whose value is not None.
C9_QueryRoundTrip ==
    /\ (op = "_build_url" /\ pc = "done" /\ args.url.query = <<>>)
           => QueryRoundTrips(args.extra_params, outcome.value.query)
    /\ \A i \in 1..Len(sent) :
           req.url.query = <<>> => QueryRoundTrips(req.data, sent[i].query)

C9_Witness ==
    /\ op = "_build_url"
    /\ pc = "done"
    /\ args.url.query = <<>>
    /\ args.extra_params =
           Dict(<<<<<<"a", "&", "b">>, Text(<<"&", "=">>)>>, <<<<"zpid">>, NoneV>>>>)
    /\ outcome.value.query = <<"a", "%", "2", "6", "b", "=", "%", "2", "6", "%", "3", "D">>

\* C10: a request_url call either returns the transport's response or raises
\* ZillowError.
C10_ResponseOrZillowError ==
    (op = "request_url" /\ pc = "done")
        => \/ outcome.kind = "return" /\ outcome.value.tag = "response"
           \/ RaisedZillowError
====
